---- MODULE Spec2Model ----
(***************************************************************************)
(* Model of app/faiss_retriever.py: FAISSRetriever (index construction,    *)
(* the three-file disk cache, clear_cache) run by concurrent callers, and  *)
(* HybridFAISSRetriever._get_relevant_documents (the FAISS + Chroma merge).*)
(***************************************************************************)
EXTENDS Integers, Sequences, FiniteSets, TLC

\* ------------------------------------------------------------------ bounds
NProcs == 2          \* callers that may be constructing at the same time
MaxDocs == 2         \* longest document list handed to a constructor
MaxOps == 3          \* constructions + clear_cache calls per behaviour
MaxLen == 3          \* longest path output handed to the hybrid merge
MaxK == 3            \* largest k of the hybrid merge
MaxCount == 10001    \* largest count handed to get_optimal_index_type

Procs == 1..NProcs
\* A collection name is the sequence of the path segments it is written
\* with: "default" is <<"default">>, "./default" is <<".", "default">>.
\* Line 69: cache_dir / name is a pathlib path, which drops "." segments; the
\* three cache files of a name are that base path plus a suffix each.
DefaultName == <<"default">>
CollectionNames == {DefaultName, <<"other">>, <<".", "default">>}
base_path(name) == SelectSeq(name, LAMBDA segment : segment # ".")
get_cache_paths(name) ==
    [index |-> <<base_path(name), "_faiss.index">>,
     embeddings |-> <<base_path(name), "_embeddings.pkl">>,
     documents |-> <<base_path(name), "_documents.pkl">>]
\* The cache directory holds the files of these base paths.
Collections == {base_path(name) : name \in CollectionNames}
IndexTypes == {"flat", "ivf", "hnsw", "lsh"}
SupportedTypes == {"flat", "ivf", "hnsw"}

\* Document texts (page_content).  A document list is a sequence of texts.
Base == <<"x", "y", "z", "w">>
Alt == <<"w", "z", "y", "x">>
Min(a, b) == IF a < b THEN a ELSE b
Corpora == {SubSeq(s, 1, n) : s \in {Base, Alt}, n \in 0..Min(MaxDocs, Len(Base))}
\* What the callers of the concurrent specification pass in.
RaceCorpora == {SubSeq(Base, 1, n) : n \in 0..Min(MaxDocs, Len(Base))}
RaceTypes == {"flat", "lsh"}

\* --------------------------------------------------------------- values
\* self.index: None, or a FAISS index holding one vector per embedded text
\* (a vector is identified by the text it embeds) and its topology.
NoIndex == [ok |-> FALSE, vecs |-> <<>>, topo |-> "none"]
\* self.document_embeddings: None, or the array of vectors.
NoEmbeddings == [ok |-> FALSE, vecs |-> <<>>]
\* A cache file: absent, corrupt (truncated / partly written), or ok.
\* Its data is what deserializing it yields when it is ok.
Blank(f) == IF f = "index" THEN [vecs |-> <<>>, topo |-> "none"] ELSE <<>>
EmptyCache == [f \in {"index", "embeddings", "documents"} |->
                  [st |-> "absent", data |-> Blank(f)]]

VARIABLES
    pc,                  \* position of each caller in __init__ / clear_cache
    coll,                \* self.collection_name
    given,               \* the documents argument of the constructor
    documents,           \* self.documents
    cached_documents,    \* local cached_documents of _load_index
    index_type,          \* self.index_type
    index,               \* self.index
    document_embeddings, \* self.document_embeddings
    cacheOutcome,        \* what the cache lookup of this construction found
    error,               \* exception that left __init__ ("none" if none)
    warned,              \* "Warning: Could not cache FAISS index" was printed
    nEmbed,              \* embed_documents calls made by this construction
    nSave,               \* _save_index calls made by this construction
    fresh,               \* construction began on a never-built collection
    afterClear,          \* construction began right after a clear_cache
    afterSave,           \* construction began after a complete save of as many chunks
    files,               \* the cache directory: three files per collection
    ops,                 \* constructions and clear_cache calls begun per collection
    hist,                \* per collection: counts seen; embedded, saved,
                         \* cleared yet; which call came last
    self_k,              \* self.k of each FAISSRetriever
    query,               \* the query of each retriever's last retrieval
    indices,             \* indices[0] as returned by self.index.search
    relevant_docs,       \* the list _get_relevant_documents returned
    retrieved,           \* outcome of the retrieval: "none", "ok", "raised"
    touched,             \* positions of stored documents the retrieval wrote to
    num_documents,       \* the argument of get_optimal_index_type
    optimal,             \* what get_optimal_index_type returned
    ivf,                 \* nlist and nprobe of the ivf branch of _build_index
    cpc,                 \* position in step 4 of initialize_rag_chain
    configured_method,   \* config["retrieval_method"]
    retrieval_method,    \* the local retrieval_method
    faiss_index_type,    \* config["faiss_index_type"]
    faiss_outcome,       \* how create_faiss_retriever ended
    optimal_index_type,  \* the local optimal_index_type
    faiss_retriever,     \* the local faiss_retriever
    ensemble_retriever,  \* the local ensemble_retriever
    hpc,                 \* position in HybridFAISSRetriever._get_relevant_documents
    hA,                  \* faiss_docs: what the FAISS retriever returned
    hB,                  \* chroma_docs: what the Chroma retriever returned
    hk,                  \* self.k of the hybrid retriever
    weights_arg,         \* the weights keyword of the caller (<<>>: not given)
    weights,             \* self.weights
    hraised,             \* which path's exception left the hybrid retrieval
    seen_content,        \* the set of content hashes seen
    combined_docs,       \* the list being built
    result               \* the list returned

rvars == <<pc, coll, given, documents, cached_documents, index_type, index,
           document_embeddings, cacheOutcome, error, warned, nEmbed, nSave,
           fresh, afterClear, afterSave, files, ops, hist>>
hvars == <<hpc, hA, hB, hk, weights_arg, weights, hraised, seen_content,
           combined_docs, result>>
svars == <<self_k, query, indices, relevant_docs, retrieved, touched>>
cvars == <<cpc, configured_method, retrieval_method, faiss_index_type,
           faiss_outcome, optimal_index_type, faiss_retriever, ensemble_retriever>>
tvars == <<num_documents, optimal, ivf, cvars>>
vars == <<rvars, hvars, svars, tvars>>

\* ------------------------------------------------------- initial state
NoHist == [count |-> -1, embedded |-> FALSE, saved |-> FALSE, cleared |-> FALSE,
           last |-> "none"]

RInit ==
    /\ pc = [p \in Procs |-> "idle"]
    /\ coll = [p \in Procs |-> DefaultName]
    /\ given = [p \in Procs |-> <<>>]
    /\ documents = [p \in Procs |-> <<>>]
    /\ cached_documents = [p \in Procs |-> <<>>]
    /\ index_type = [p \in Procs |-> "flat"]
    /\ index = [p \in Procs |-> NoIndex]
    /\ document_embeddings = [p \in Procs |-> NoEmbeddings]
    /\ cacheOutcome = [p \in Procs |-> "none"]
    /\ error = [p \in Procs |-> "none"]
    /\ warned = [p \in Procs |-> FALSE]
    /\ nEmbed = [p \in Procs |-> 0]
    /\ nSave = [p \in Procs |-> 0]
    /\ fresh = [p \in Procs |-> FALSE]
    /\ afterClear = [p \in Procs |-> FALSE]
    /\ afterSave = [p \in Procs |-> FALSE]
    /\ files = [c \in Collections |-> EmptyCache]
    /\ ops = [c \in Collections |-> 0]
    /\ hist = [c \in Collections |-> NoHist]

RECURSIVE SumOver(_, _)
SumOver(f, S) == IF S = {} THEN 0
                 ELSE LET x == CHOOSE y \in S : TRUE IN f[x] + SumOver(f, S \ {x})
TotalOps == SumOver(ops, Collections)

\* --------------------------------------------------- FAISSRetriever.__init__
\* Lines 49-65: the fields are set from the keyword arguments, index and
\* document_embeddings are reset to None, then _build_or_load_index runs.
SeenCount(h, n) == IF h.count = -1 \/ h.count = n THEN n ELSE -2

ConstructNamed(p, N, D, T) ==
    /\ pc[p] = "idle"
    /\ TotalOps < MaxOps
    /\ \E name \in N, d \in D, t \in T :
        LET c == base_path(name) IN
        /\ coll' = [coll EXCEPT ![p] = name]
        /\ given' = [given EXCEPT ![p] = d]
        /\ documents' = [documents EXCEPT ![p] = d]
        /\ index_type' = [index_type EXCEPT ![p] = t]
        /\ fresh' = [fresh EXCEPT ![p] = ~hist[c].embedded]
        /\ afterSave' = [afterSave EXCEPT ![p] =
               hist[c].saved /\ ~hist[c].cleared /\ hist[c].count = Len(d)]
        /\ afterClear' = [afterClear EXCEPT ![p] = hist[c].last = "clear"]
        /\ hist' = [hist EXCEPT ![c].count = SeenCount(hist[c], Len(d)),
                                ![c].last = "construct"]
        /\ ops' = [ops EXCEPT ![c] = @ + 1]
    /\ index' = [index EXCEPT ![p] = NoIndex]
    /\ document_embeddings' = [document_embeddings EXCEPT ![p] = NoEmbeddings]
    /\ pc' = [pc EXCEPT ![p] = "exists"]
    /\ UNCHANGED <<cached_documents, cacheOutcome, error, warned, nEmbed, nSave,
                   files, hvars, svars, tvars>>

Construct(p, D, T) == ConstructNamed(p, {DefaultName}, D, T)

\* ------------------------------------------------ _build_or_load_index
\* Lines 81-83: the cache is looked up iff all three paths exist (a
\* truncated or partly written file exists too).
FileOf(at) ==
    CASE at \in {"load_index", "save_index", "write_index", "ready"} -> "index"
      [] at \in {"load_embeddings", "save_embeddings", "write_embeddings",
                 "clear_embeddings"} -> "embeddings"
      [] OTHER -> "documents"

path_exists(file) == file.st # "absent"
cache_exists(cache) ==
    /\ path_exists(cache["index"])
    /\ path_exists(cache["embeddings"])
    /\ path_exists(cache["documents"])

Exists(p) ==
    /\ pc[p] = "exists"
    /\ IF cache_exists(files[base_path(coll[p])])
       THEN /\ pc' = [pc EXCEPT ![p] = "load_index"]
            /\ UNCHANGED cacheOutcome
       ELSE /\ pc' = [pc EXCEPT ![p] = "build_miss"]
            /\ cacheOutcome' = [cacheOutcome EXCEPT ![p] = "miss"]
    /\ UNCHANGED <<coll, given, documents, cached_documents, index_type, index,
                   document_embeddings,
                   error, warned, nEmbed, nSave, fresh, afterClear, afterSave,
                   files, ops, hist, hvars, svars, tvars>>

\* ------------------------------------------------------------ _load_index
\* Lines 157-167: faiss.read_index / pickle.load on each file in turn.  A
\* file that is gone by now, or is truncated or partly written, raises; the
\* except clause at 178 sends control to the rebuild at 181.
LoadPcs == {"load_index", "load_embeddings", "load_documents"}
readable(file) == file.st = "ok"
LoadFailureRaises == "raised"
LoadFailurePc == "build_except"

\* Line 170: the cache is kept iff as many documents were cached as are current.
cache_valid_by_content(cached, current) == cached = current
cache_valid(cached, current) == Len(cached) = Len(current)

Load(p) ==
    /\ pc[p] \in LoadPcs
    /\ LET f == FileOf(pc[p])
           file == files[base_path(coll[p])][f]
       IN IF ~readable(file)
          THEN /\ pc' = [pc EXCEPT ![p] = LoadFailurePc]
               /\ error' = [error EXCEPT ![p] =
                      IF LoadFailurePc = "raised" THEN "CacheLoadError" ELSE @]
               /\ cacheOutcome' = [cacheOutcome EXCEPT ![p] = "loadfail"]
               /\ UNCHANGED <<index, document_embeddings, documents,
                              cached_documents>>
          ELSE /\ UNCHANGED error
               /\ CASE f = "index" ->
                         /\ index' = [index EXCEPT ![p] =
                                [ok |-> TRUE, vecs |-> file.data.vecs,
                                 topo |-> file.data.topo]]
                         /\ pc' = [pc EXCEPT ![p] = "load_embeddings"]
                         /\ UNCHANGED <<document_embeddings, documents, cached_documents,
                                        cacheOutcome>>
                    [] f = "embeddings" ->
                         /\ document_embeddings' = [document_embeddings EXCEPT ![p] =
                                [ok |-> TRUE, vecs |-> file.data]]
                         /\ pc' = [pc EXCEPT ![p] = "load_documents"]
                         /\ UNCHANGED <<index, documents, cached_documents, cacheOutcome>>
                    [] OTHER ->
                         /\ cached_documents' = [cached_documents EXCEPT ![p] = file.data]
                         /\ IF cache_valid(file.data, documents[p])
                            THEN /\ documents' = [documents EXCEPT ![p] = file.data]
                                 /\ cacheOutcome' = [cacheOutcome EXCEPT ![p] = "hit"]
                                 /\ pc' = [pc EXCEPT ![p] = "ready"]
                            ELSE /\ cacheOutcome' = [cacheOutcome EXCEPT ![p] = "mismatch"]
                                 /\ pc' = [pc EXCEPT ![p] = "build_mismatch"]
                                 /\ UNCHANGED documents
                         /\ UNCHANGED <<index, document_embeddings>>
    /\ UNCHANGED <<coll, given, index_type, warned, nEmbed, nSave, fresh,
                   afterClear, afterSave, files, ops, hist, hvars, svars, tvars>>

\* ----------------------------------------------------------- _build_index
\* Lines 92-134 as a function of the documents, the index type and whether
\* the embedding collaborator answers: what is raised, whether
\* embed_documents was called, and what self.document_embeddings and
\* self.index are assigned (set = FALSE: left as they were).
build_index_unchecked(docs, type, embedOK) ==
    IF ~embedOK
    THEN [raises |-> "EmbeddingError", called |-> 1,
          setEmb |-> FALSE, setIdx |-> FALSE]
    ELSE IF docs = <<>>
    THEN [raises |-> "IndexError", called |-> 1, setEmb |-> TRUE, setIdx |-> FALSE]
    ELSE IF type \notin SupportedTypes
    THEN [raises |-> "ValueError: Unsupported index type", called |-> 1,
          setEmb |-> TRUE, setIdx |-> FALSE]
    ELSE [raises |-> "none", called |-> 1, setEmb |-> TRUE, setIdx |-> TRUE]
build_index(docs, type, embedOK) ==
    IF docs = <<>>
    THEN [raises |-> "ValueError: No documents provided for indexing",
          called |-> 0, setEmb |-> FALSE, setIdx |-> FALSE]
    ELSE IF ~embedOK
    THEN [raises |-> "EmbeddingError", called |-> 1,
          setEmb |-> FALSE, setIdx |-> FALSE]
    ELSE IF type \notin SupportedTypes
    THEN [raises |-> "ValueError: Unsupported index type", called |-> 1,
          setEmb |-> TRUE, setIdx |-> FALSE]
    ELSE [raises |-> "none", called |-> 1, setEmb |-> TRUE, setIdx |-> TRUE]

BuildErrors == {"ValueError: No documents provided for indexing",
                "EmbeddingError", "ValueError: Unsupported index type"}

\* Where an exception of _build_index goes: the call at line 172 sits inside
\* the try of _load_index, so `except Exception` (178) catches it and line 181
\* builds again; the calls at 89 and 181 are not guarded.
BuildPcs == {"build_miss", "build_mismatch", "build_except"}
OnBuildRaise(at) == IF at = "build_mismatch" THEN "build_except" ELSE "raised"

Build(p) ==
    /\ pc[p] \in BuildPcs
    /\ \E embedOK \in BOOLEAN :
        LET r == build_index(documents[p], index_type[p], embedOK)
            c == base_path(coll[p])
        IN /\ (documents[p] = <<>> => embedOK)
           /\ nEmbed' = [nEmbed EXCEPT ![p] = @ + r.called]
           /\ hist' = [hist EXCEPT ![c].embedded = @ \/ (r.called = 1)]
           /\ document_embeddings' = [document_embeddings EXCEPT ![p] =
                  IF r.setEmb THEN [ok |-> TRUE, vecs |-> documents[p]] ELSE @]
           /\ index' = [index EXCEPT ![p] =
                  IF r.setIdx THEN [ok |-> TRUE, vecs |-> documents[p],
                                    topo |-> index_type[p]] ELSE @]
           /\ IF r.raises = "none"
              THEN /\ pc' = [pc EXCEPT ![p] = "save_index"]
                   /\ UNCHANGED error
              ELSE /\ pc' = [pc EXCEPT ![p] = OnBuildRaise(pc[p])]
                   /\ error' = [error EXCEPT ![p] =
                          IF OnBuildRaise(pc[p]) = "raised" THEN r.raises ELSE @]
    /\ UNCHANGED <<coll, given, documents, cached_documents, index_type,
                   cacheOutcome, warned, nSave, fresh, afterClear, afterSave,
                   files, ops, hvars, svars, tvars>>

\* ------------------------------------------------------------ _save_index
\* Lines 138-153.  Each artifact is written in two steps: the file is opened
\* for writing, which truncates it (faiss.write_index, open(path, 'wb')), and
\* then its content is written.  Either step may fail; the except clause at
\* 152 prints the warning and _save_index returns, skipping the later files.
\* A write that completes leaves the writer's content in the file (the last
\* writer wins); content written to a file that clear_cache unlinked in the
\* meantime is lost.
OpenPcs == {"save_index", "save_embeddings", "save_documents"}
WritePcs == {"write_index", "write_embeddings", "write_documents"}
SavePcs == OpenPcs \cup WritePcs
AfterOpen(at) ==
    CASE at = "save_index" -> "write_index"
      [] at = "save_embeddings" -> "write_embeddings"
      [] OTHER -> "write_documents"
AfterWrite(at) ==
    CASE at = "write_index" -> "save_embeddings"
      [] at = "write_embeddings" -> "save_documents"
      [] OTHER -> "ready"
SaveFailureRaises == "raised"
SaveFailurePc == "ready"

Reverse(q) == [i \in 1..Len(q) |-> q[Len(q) + 1 - i]]
PayloadReordered(p, f) ==
    CASE f = "index" -> [vecs |-> Reverse(index[p].vecs), topo |-> index[p].topo]
      [] f = "embeddings" -> document_embeddings[p].vecs
      [] OTHER -> documents[p]
Payload(p, f) ==
    CASE f = "index" -> [vecs |-> index[p].vecs, topo |-> index[p].topo]
      [] f = "embeddings" -> document_embeddings[p].vecs
      [] OTHER -> documents[p]

SaveFailed(p) ==
    /\ pc' = [pc EXCEPT ![p] = SaveFailurePc]
    /\ warned' = [warned EXCEPT ![p] = TRUE]
    /\ error' = [error EXCEPT ![p] =
           IF SaveFailurePc = "raised" THEN "CacheSaveError" ELSE @]

SaveOpen(p) ==
    /\ pc[p] \in OpenPcs
    /\ LET f == FileOf(pc[p])
           c == base_path(coll[p])
       IN /\ nSave' = [nSave EXCEPT ![p] = IF pc[p] = "save_index" THEN @ + 1 ELSE @]
          /\ \/ /\ files' = [files EXCEPT ![c][f] = [st |-> "corrupt", data |-> Blank(f)]]
                /\ pc' = [pc EXCEPT ![p] = AfterOpen(pc[p])]
                /\ UNCHANGED <<warned, error>>
             \/ /\ SaveFailed(p)
                /\ UNCHANGED files
    /\ UNCHANGED <<coll, given, documents, cached_documents, index_type, index,
                   document_embeddings,
                   cacheOutcome, nEmbed, fresh, afterClear, afterSave, ops, hist,
                   hvars, svars, tvars>>

SaveWrite(p) ==
    /\ pc[p] \in WritePcs
    /\ LET f == FileOf(pc[p])
           c == base_path(coll[p])
       IN \/ /\ files' = [files EXCEPT ![c][f] =
                    IF @.st = "absent" THEN @
                    ELSE [st |-> "ok", data |-> Payload(p, f)]]
             /\ pc' = [pc EXCEPT ![p] = AfterWrite(pc[p])]
             /\ hist' = [hist EXCEPT ![c].saved = @ \/ (pc[p] = "write_documents")]
             /\ UNCHANGED <<warned, error>>
          \/ /\ SaveFailed(p)
             /\ UNCHANGED <<files, hist>>
    /\ UNCHANGED <<coll, given, documents, cached_documents, index_type, index,
                   document_embeddings,
                   cacheOutcome, nEmbed, nSave, fresh, afterClear, afterSave, ops,
                   hvars, svars, tvars>>

\* ------------------------------------------------------------ clear_cache
\* Lines 228-234: for each of the three paths in turn (index, embeddings,
\* documents), remove the file if it exists.
ClearPcs == {"ready", "clear_embeddings", "clear_documents"}
AfterClearIndexOnly(at) == "ready"
AfterClear(at) ==
    CASE at = "ready" -> "clear_embeddings"
      [] at = "clear_embeddings" -> "clear_documents"
      [] OTHER -> "ready"

ClearCache(p) ==
    /\ pc[p] \in ClearPcs
    /\ pc[p] = "ready" => TotalOps < MaxOps
    /\ LET f == FileOf(pc[p])
           c == base_path(coll[p])
       IN /\ files' = [files EXCEPT ![c][f] = [st |-> "absent", data |-> Blank(f)]]
          /\ ops' = [ops EXCEPT ![c] = IF pc[p] = "ready" THEN @ + 1 ELSE @]
          /\ hist' = [hist EXCEPT ![c].cleared = TRUE,
                                  ![c].last = IF AfterClear(pc[p]) = "ready"
                                              THEN "clear" ELSE @]
    /\ pc' = [pc EXCEPT ![p] = AfterClear(pc[p])]
    /\ UNCHANGED <<coll, given, documents, cached_documents, index_type, index,
                   document_embeddings,
                   cacheOutcome, error, warned, nEmbed, nSave, fresh, afterClear,
                   afterSave, hvars, svars, tvars>>

\* The caller drops the retriever (or the failed construction) and may
\* construct again.
Discard(p) ==
    /\ pc[p] \in {"ready", "raised"}
    /\ pc' = [pc EXCEPT ![p] = "idle"]
    /\ coll' = [coll EXCEPT ![p] = DefaultName]
    /\ given' = [given EXCEPT ![p] = <<>>]
    /\ documents' = [documents EXCEPT ![p] = <<>>]
    /\ cached_documents' = [cached_documents EXCEPT ![p] = <<>>]
    /\ index_type' = [index_type EXCEPT ![p] = "flat"]
    /\ index' = [index EXCEPT ![p] = NoIndex]
    /\ document_embeddings' = [document_embeddings EXCEPT ![p] = NoEmbeddings]
    /\ cacheOutcome' = [cacheOutcome EXCEPT ![p] = "none"]
    /\ error' = [error EXCEPT ![p] = "none"]
    /\ warned' = [warned EXCEPT ![p] = FALSE]
    /\ nEmbed' = [nEmbed EXCEPT ![p] = 0]
    /\ nSave' = [nSave EXCEPT ![p] = 0]
    /\ fresh' = [fresh EXCEPT ![p] = FALSE]
    /\ afterClear' = [afterClear EXCEPT ![p] = FALSE]
    /\ afterSave' = [afterSave EXCEPT ![p] = FALSE]
    /\ indices' = [indices EXCEPT ![p] = <<>>]
    /\ relevant_docs' = [relevant_docs EXCEPT ![p] = <<>>]
    /\ retrieved' = [retrieved EXCEPT ![p] = "none"]
    /\ touched' = [touched EXCEPT ![p] = {}]
    /\ UNCHANGED <<files, ops, hist, self_k, query, hvars, tvars>>

\* ------------------------- FAISSRetriever._get_relevant_documents (184-216)
\* A query is modelled by the order in which it ranks the texts' vectors,
\* nearest first.  The exact (flat) index returns the positions (0-based) of
\* its vectors in that order, the k nearest; where it holds fewer than k
\* vectors FAISS fills the row with the label -1.  The approximate indexes
\* (ivf, hnsw) may miss any of the neighbours.
DefaultK == 4
Queries == {Base, Alt, <<"y", "x", "w", "z">>}
NoNeighbour == -1

positions_of(vecs, t) ==
    SelectSeq([i \in 1..Len(vecs) |-> i - 1], LAMBDA i : vecs[i + 1] = t)
RECURSIVE ranked(_, _)
ranked(vecs, q) ==
    IF q = <<>> THEN <<>> ELSE positions_of(vecs, Head(q)) \o ranked(vecs, Tail(q))
pad(found, k) == found \o [i \in 1..(k - Len(found)) |-> NoNeighbour]
search_flat(vecs, q, k) == pad(SubSeq(ranked(vecs, q), 1, Min(k, Len(vecs))), k)

RECURSIVE Subsequences(_)
Subsequences(q) ==
    IF q = <<>> THEN {<<>>}
    ELSE LET rest == Subsequences(Tail(q))
         IN rest \cup {<<Head(q)>> \o r : r \in rest}
search(idx, q, k) ==
    IF idx.topo = "flat" THEN {search_flat(idx.vecs, q, k)}
    ELSE {pad(found, k) :
              found \in Subsequences(SubSeq(ranked(idx.vecs, q), 1, Min(k, Len(idx.vecs))))}

\* Python's docs[idx] for idx >= -len(docs): a negative idx counts from the end.
PyIndex(docs, idx) == IF idx >= 0 THEN docs[idx + 1] ELSE docs[Len(docs) + idx + 1]

\* Lines 201-216: the loop over the returned row; position i (from 1) of the
\* row is faiss_rank i.
relevant(ind, docs) ==
    LET F[i \in 0..Len(ind)] ==
            IF i = 0 THEN <<>>
            ELSE IF ind[i] < Len(docs)
            THEN Append(F[i - 1], [page_content |-> PyIndex(docs, ind[i]),
                                   faiss_rank |-> i])
            ELSE F[i - 1]
    IN F[Len(ind)]

\* Lines 204-214: each hit is returned as a new Document with a new
\* metadata dict; no stored Document is written to.
written_in_place_all(ind, docs) ==
    {ind[i] : i \in {j \in 1..Len(ind) : 0 <= ind[j] /\ ind[j] < Len(docs)}}
written_in_place(ind, docs) == {}

Retrieve(p) ==
    /\ pc[p] = "ready"
    /\ retrieved[p] = "none"
    /\ \/ /\ index[p].ok
          /\ \E ind \in search(index[p], query, self_k[p]) :
                /\ indices' = [indices EXCEPT ![p] = ind]
                /\ relevant_docs' = [relevant_docs EXCEPT ![p] =
                       relevant(ind, documents[p])]
                /\ touched' = [touched EXCEPT ![p] =
                       written_in_place(ind, documents[p])]
          /\ retrieved' = [retrieved EXCEPT ![p] = "ok"]
       \/ \* "FAISS index not initialized" (192), or embed_query raises (195)
          /\ retrieved' = [retrieved EXCEPT ![p] = "raised"]
          /\ UNCHANGED <<indices, relevant_docs, touched>>
    /\ UNCHANGED <<self_k, query, rvars, hvars, tvars>>

SIdle ==
    /\ self_k = [p \in Procs |-> DefaultK]
    /\ query = Base
    /\ indices = [p \in Procs |-> <<>>]
    /\ relevant_docs = [p \in Procs |-> <<>>]
    /\ retrieved = [p \in Procs |-> "none"]
    /\ touched = [p \in Procs |-> {}]

\* ------------------------------------------ get_optimal_index_type, at rest
NotTrained == [trained |-> FALSE, nlist |-> 0, nprobe |-> 0]
CIdle ==
    /\ cpc = "idle"
    /\ configured_method = "faiss_hybrid"
    /\ retrieval_method = "faiss_hybrid"
    /\ faiss_index_type = "auto"
    /\ faiss_outcome = "none"
    /\ optimal_index_type = "none"
    /\ faiss_retriever = "None"
    /\ ensemble_retriever = "None"

TIdle ==
    /\ num_documents = 0
    /\ optimal = "none"
    /\ ivf = NotTrained
    /\ CIdle

\* ---------------------------------------------- hybrid merge, at rest
HIdle ==
    /\ hpc = "idle"
    /\ hA = <<>>
    /\ hB = <<>>
    /\ hk = 0
    /\ weights_arg = <<>>
    /\ weights = <<5, 5>>
    /\ hraised = "none"
    /\ seen_content = {}
    /\ combined_docs = <<>>
    /\ result = <<>>

\* ------------------------------------------------------- specification
Init == RInit /\ HIdle /\ SIdle /\ TIdle

Next ==
    \E p \in Procs :
        \/ Construct(p, RaceCorpora, RaceTypes)
        \/ Exists(p)
        \/ Load(p)
        \/ Build(p)
        \/ SaveOpen(p)
        \/ SaveWrite(p)
        \/ ClearCache(p)
        \/ Discard(p)

Spec == Init /\ [][Next]_vars

\* One caller on its own: successive constructions and clear_cache calls of a
\* single process, none overlapping another.
Caller == CHOOSE p \in Procs : TRUE

SeqNext ==
    \/ Construct(Caller, Corpora, IndexTypes)
    \/ Exists(Caller)
    \/ Load(Caller)
    \/ Build(Caller)
    \/ SaveOpen(Caller)
    \/ SaveWrite(Caller)
    \/ ClearCache(Caller)
    \/ Discard(Caller)

SpecSeq == Init /\ [][SeqNext]_vars

\* A writer constructs a retriever; once it is ready a reader constructs a
\* fresh one for the same collection; each retrieves with the same query and
\* the same k.
Writer == 1
Reader == 2
RetrieveTypes == {"flat", "hnsw"}

RetrieveInit ==
    /\ RInit
    /\ HIdle
    /\ TIdle
    /\ query \in Queries
    /\ \E k \in 1..MaxK : self_k = [p \in Procs |-> k]
    /\ indices = [p \in Procs |-> <<>>]
    /\ relevant_docs = [p \in Procs |-> <<>>]
    /\ retrieved = [p \in Procs |-> "none"]
    /\ touched = [p \in Procs |-> {}]

RetrieveNext ==
    \/ Construct(Writer, Corpora, RetrieveTypes)
    \/ pc[Writer] = "ready" /\ Construct(Reader, Corpora, RetrieveTypes)
    \/ \E p \in {Writer, Reader} :
          \/ Exists(p)
          \/ Load(p)
          \/ Build(p)
          \/ SaveOpen(p)
          \/ SaveWrite(p)
          \/ Retrieve(p)

SpecRetrieve == RetrieveInit /\ [][RetrieveNext]_vars

\* One caller that constructs, retrieves, clears and constructs again.
ServeTypes == {"flat"}

ServeNext ==
    \/ Construct(Caller, RaceCorpora, ServeTypes)
    \/ Exists(Caller)
    \/ Load(Caller)
    \/ Build(Caller)
    \/ SaveOpen(Caller)
    \/ SaveWrite(Caller)
    \/ Retrieve(Caller)
    \/ ClearCache(Caller)
    \/ Discard(Caller)

SpecServe == RetrieveInit /\ [][ServeNext]_vars

\* One caller that works on several collection names in turn.
FrameNext ==
    \/ ConstructNamed(Caller, CollectionNames, RaceCorpora, ServeTypes)
    \/ Exists(Caller)
    \/ Load(Caller)
    \/ Build(Caller)
    \/ SaveOpen(Caller)
    \/ SaveWrite(Caller)
    \/ ClearCache(Caller)
    \/ Discard(Caller)

SpecFrame == Init /\ [][FrameNext]_vars

\* ------------------ HybridFAISSRetriever._get_relevant_documents (267-302)
\* A Document is its page_content and the two metadata keys the merge sets
\* ("none" / 0 while unset).  Weights are in tenths: [0.6, 0.4] is <<6, 4>>.
Doc(t) == [page_content |-> t, retriever_source |-> "none", retriever_weight |-> 0]
HTexts == {"x", "y", "z"}
\* What the Chroma retriever may return: "X" is the text "x" in another
\* letter case, a different str to Python.
ChromaTexts == {"X", "y", "z"}
\* Line 261: the default of the weights field; <<>> stands for a caller that
\* passes no weights, <<6, 4>> is what initialize_rag_chain passes.
DefaultWeights == <<5, 5>>
WeightArgs == {<<>>, <<6, 4>>}
field_weights(arg) == IF arg = <<>> THEN DefaultWeights ELSE arg

RECURSIVE SeqsUpTo(_, _)
SeqsUpTo(S, n) ==
    IF n = 0 THEN {<<>>}
    ELSE LET shorter == SeqsUpTo(S, n - 1)
         IN shorter \cup {Append(q, x) : q \in {r \in shorter : Len(r) = n - 1}, x \in S}
PathOutputs == {[i \in 1..Len(q) |-> Doc(q[i])] : q \in SeqsUpTo(HTexts, MaxLen)}
ChromaOutputs == {[i \in 1..Len(q) |-> Doc(q[i])] : q \in SeqsUpTo(ChromaTexts, MaxLen)}

\* Python's hash() of a str: equal texts have equal hashes; the texts of the
\* model have pairwise different hashes.
hash(t) ==
    CASE t = "x" -> 120 [] t = "y" -> 121 [] t = "z" -> 122 [] t = "X" -> 88
      [] OTHER -> 0

\* Python's s[:k]: the first k items, or all but the last -k when k < 0.
PySlice(q, k) ==
    IF k >= 0 THEN SubSeq(q, 1, Min(k, Len(q)))
    ELSE SubSeq(q, 1, IF Len(q) + k > 0 THEN Len(q) + k ELSE 0)

\* One `for doc in docs` loop of lines 284-290 / 293-299: a document whose
\* hash is not in seen_content is tagged, appended and its hash recorded.
RECURSIVE admit(_, _, _, _, _)
admit(docs, seen, combined, source, weight) ==
    IF docs = <<>> THEN [seen |-> seen, combined |-> combined]
    ELSE LET doc == Head(docs)
             content_hash == hash(doc.page_content)
         IN IF content_hash \notin seen
            THEN admit(Tail(docs), seen \cup {content_hash},
                       Append(combined, [doc EXCEPT !.retriever_source = source,
                                                    !.retriever_weight = weight]),
                       source, weight)
            ELSE admit(Tail(docs), seen, combined, source, weight)

\* Lines 280-290: the FAISS results, into an empty seen set and list.
process_faiss_unsliced(faiss_docs, k, w) == admit(faiss_docs, {}, <<>>, "faiss", w[1])
process_faiss(faiss_docs, k, w) == admit(PySlice(faiss_docs, k), {}, <<>>, "faiss", w[1])

\* Lines 293-299: the Chroma results, into the same seen set and list.
process_chroma_own_seen(chroma_docs, k, w, seen, combined) ==
    admit(PySlice(chroma_docs, k), {}, combined, "chroma", w[2])
process_chroma_by_weight(chroma_docs, k, w, seen, combined) ==
    IF w[2] >= w[1]
    THEN LET r == admit(PySlice(chroma_docs, k), seen, <<>>, "chroma", w[2])
         IN [seen |-> r.seen, combined |-> r.combined \o combined]
    ELSE admit(PySlice(chroma_docs, k), seen, combined, "chroma", w[2])
process_chroma(chroma_docs, k, w, seen, combined) ==
    admit(PySlice(chroma_docs, k), seen, combined, "chroma", w[2])

\* Line 302.
top_k_untruncated(combined, k) == combined
top_k(combined, k) == PySlice(combined, k)

HybridInit ==
    /\ RInit
    /\ SIdle
    /\ TIdle
    /\ hpc = "start"
    /\ hA \in PathOutputs
    /\ hB \in ChromaOutputs
    /\ hk \in (0..MaxK) \cup {-1}
    /\ weights_arg \in WeightArgs
    /\ weights = field_weights(weights_arg)
    /\ hraised = "none"
    /\ seen_content = {}
    /\ combined_docs = <<>>
    /\ result = <<>>

\* Lines 276-277: the two retrievers are called outside any try; an
\* exception of either leaves _get_relevant_documents at once.
FaissFailureFallsBack == "chroma"
FaissFailurePc == "raised"

HybridFaissRaises ==
    /\ hpc = "start"
    /\ hraised' = "faiss"
    /\ hpc' = FaissFailurePc
    /\ UNCHANGED <<hA, hB, hk, weights_arg, weights, seen_content, combined_docs,
                   result, rvars, svars, tvars>>

HybridChromaRaises ==
    /\ hpc = "start"
    /\ hraised' = "chroma"
    /\ hpc' = "raised"
    /\ UNCHANGED <<hA, hB, hk, weights_arg, weights, seen_content, combined_docs,
                   result, rvars, svars, tvars>>

HybridFaiss ==
    /\ hpc = "start"
    /\ LET r == process_faiss(hA, hk, weights)
       IN /\ seen_content' = r.seen
          /\ combined_docs' = r.combined
    /\ hpc' = "chroma"
    /\ UNCHANGED <<hA, hB, hk, weights_arg, weights, hraised, result,
                   rvars, svars, tvars>>

HybridChroma ==
    /\ hpc = "chroma"
    /\ LET r == process_chroma(hB, hk, weights, seen_content, combined_docs)
       IN /\ seen_content' = r.seen
          /\ combined_docs' = r.combined
    /\ hpc' = "return"
    /\ UNCHANGED <<hA, hB, hk, weights_arg, weights, hraised, result,
                   rvars, svars, tvars>>

HybridReturn ==
    /\ hpc = "return"
    /\ result' = top_k(combined_docs, hk)
    /\ hpc' = "done"
    /\ UNCHANGED <<hA, hB, hk, weights_arg, weights, hraised, seen_content,
                   combined_docs, rvars, svars, tvars>>

HybridNext ==
    \/ HybridFaissRaises
    \/ HybridChromaRaises
    \/ HybridFaiss
    \/ HybridChroma
    \/ HybridReturn

SpecHybrid == HybridInit /\ [][HybridNext]_vars

\* ------------------------------------------ get_optimal_index_type (337-352)
FlatLimit == 1000
IvfLimit == 10000

get_optimal_index_type_inclusive(n) ==
    IF n <= FlatLimit THEN "flat"
    ELSE IF n <= IvfLimit THEN "ivf"
    ELSE "hnsw"
get_optimal_index_type(n) ==
    IF n < FlatLimit THEN "flat"
    ELSE IF n < IvfLimit THEN "ivf"
    ELSE "hnsw"

\* Lines 117 and 123: the number of clusters and of clusters probed.
Max(a, b) == IF a > b THEN a ELSE b
ivf_nlist_unclamped(n) == Min(100, n \div 10)
ivf_nlist(n) == Max(1, Min(100, n \div 10))
ivf_nprobe(nlist) == Min(nlist, 10)

SelectInit ==
    /\ RInit
    /\ HIdle
    /\ SIdle
    /\ CIdle
    /\ num_documents \in 0..MaxCount
    /\ optimal = "none"
    /\ ivf = NotTrained

GetOptimalIndexType ==
    /\ optimal = "none"
    /\ optimal' = get_optimal_index_type(num_documents)
    /\ UNCHANGED <<num_documents, ivf, cvars, rvars, hvars, svars>>

\* The ivf branch of _build_index (115-123); line 94 has turned away an
\* empty document list before.
TrainIvf ==
    /\ ~ivf.trained
    /\ num_documents >= 1
    /\ LET nlist == ivf_nlist(num_documents)
       IN ivf' = [trained |-> TRUE, nlist |-> nlist, nprobe |-> ivf_nprobe(nlist)]
    /\ UNCHANGED <<num_documents, optimal, cvars, rvars, hvars, svars>>

SelectNext == GetOptimalIndexType \/ TrainIvf

SpecSelect == SelectInit /\ [][SelectNext]_vars

\* ------------------------- initialize_rag_chain, step 4 (2_Chat.py 521-590)
RetrievalMethods == {"faiss_hybrid", "faiss_only", "chroma_only", "legacy_hybrid",
                     "bm25"}
ConfiguredIndexTypes == {"auto"} \cup IndexTypes
ChunkCounts == {1, FlatLimit, IvfLimit}
\* How create_faiss_retriever ends: it returns, or raises ImportError, or
\* raises another Exception.
FaissOutcomes == {"ok", "ImportError", "Exception"}

ChainInit ==
    /\ RInit
    /\ HIdle
    /\ SIdle
    /\ optimal = "none"
    /\ ivf = NotTrained
    /\ cpc = "init_faiss"
    /\ configured_method \in RetrievalMethods
    /\ retrieval_method = configured_method
    /\ faiss_index_type \in ConfiguredIndexTypes
    /\ num_documents \in ChunkCounts
    /\ faiss_outcome = "none"
    /\ optimal_index_type = "none"
    /\ faiss_retriever = "None"
    /\ ensemble_retriever = "None"

\* Lines 531-555: both except clauses set retrieval_method to "chroma_only"
\* and let the function go on.
FaissInitFailureRaises == "raised"
FaissInitFailurePc == "configure"

InitFaiss ==
    /\ cpc = "init_faiss"
    /\ IF retrieval_method \in {"faiss_hybrid", "faiss_only"}
       THEN /\ optimal_index_type' =
                   IF faiss_index_type = "auto"
                   THEN get_optimal_index_type(num_documents)
                   ELSE faiss_index_type
            /\ \E outcome \in FaissOutcomes :
                  /\ faiss_outcome' = outcome
                  /\ IF outcome = "ok"
                     THEN /\ faiss_retriever' = "FAISSRetriever"
                          /\ cpc' = "configure"
                          /\ UNCHANGED retrieval_method
                     ELSE /\ retrieval_method' = "chroma_only"
                          /\ cpc' = FaissInitFailurePc
                          /\ UNCHANGED faiss_retriever
       ELSE /\ cpc' = "configure"
            /\ UNCHANGED <<optimal_index_type, faiss_outcome, faiss_retriever,
                           retrieval_method>>
    /\ UNCHANGED <<configured_method, faiss_index_type, ensemble_retriever,
                   num_documents, optimal, ivf, rvars, hvars, svars>>

\* Lines 557-590: the if / elif chain; bm25 tells whether the import of
\* BM25Retriever at line 575 succeeds.
select_retriever(method, faiss, bm25) ==
    IF method = "faiss_hybrid" /\ faiss # "None" THEN "HybridFAISSRetriever"
    ELSE IF method = "faiss_only" /\ faiss # "None" THEN faiss
    ELSE IF method = "chroma_only" THEN "chroma_retriever"
    ELSE IF method = "legacy_hybrid"
    THEN (IF bm25 THEN "EnsembleRetriever" ELSE "chroma_retriever")
    ELSE "chroma_retriever"

ConfigureRetriever ==
    /\ cpc = "configure"
    /\ \E bm25 \in BOOLEAN :
          ensemble_retriever' = select_retriever(retrieval_method, faiss_retriever, bm25)
    /\ cpc' = "done"
    /\ UNCHANGED <<configured_method, retrieval_method, faiss_index_type,
                   faiss_outcome, optimal_index_type, faiss_retriever,
                   num_documents, optimal, ivf, rvars, hvars, svars>>

ChainNext == InitFaiss \/ ConfigureRetriever

SpecChain == ChainInit /\ [][ChainNext]_vars

\* =================================================================== claims
TextsOf(docs) == [i \in 1..Len(docs) |-> docs[i].page_content]
Range(q) == {q[i] : i \in 1..Len(q)}
FirstK(q, k) == SubSeq(q, 1, Min(k, Len(q)))
Occurrences(docs, t) == {i \in 1..Len(docs) : docs[i].page_content = t}

\* C3: the list the hybrid merge returns never holds two documents with the
\* same text; for k >= 0 a text that both paths return within their first k
\* results is returned exactly once, tagged with the FAISS path's source and
\* weight; and A = [x, y], B = [y, z], k = 3 gives exactly [x, y, z] with y
\* tagged as the FAISS path's.
C3_DedupInvariant ==
    hpc = "done" =>
        /\ \A i, j \in 1..Len(result) :
               i # j => result[i].page_content # result[j].page_content
        /\ hk >= 0 =>
             \A t \in Range(TextsOf(FirstK(hA, hk))) \cap Range(TextsOf(FirstK(hB, hk))) :
                 /\ Cardinality(Occurrences(result, t)) = 1
                 /\ \A i \in Occurrences(result, t) :
                        /\ result[i].retriever_source = "faiss"
                        /\ result[i].retriever_weight = weights[1]
        /\ (TextsOf(hA) = <<"x", "y">> /\ TextsOf(hB) = <<"y", "z">> /\ hk = 3) =>
               /\ TextsOf(result) = <<"x", "y", "z">>
               /\ result[2].retriever_source = "faiss"

C3_Witness ==
    /\ hpc = "done"
    /\ TextsOf(hA) = <<"x", "y">>
    /\ TextsOf(hB) = <<"y", "z">>
    /\ hk = 3
    /\ TextsOf(result) = <<"x", "y", "z">>

\* C4: for every k >= 0 and all path outputs, also ones longer than k, the
\* list the hybrid merge returns has at most k documents.
C4_KBound == (hpc = "done" /\ hk >= 0) => Len(result) <= hk

C4_Witness ==
    /\ hpc = "done"
    /\ hk >= 1
    /\ Len(hA) > hk
    /\ Len(hB) > hk
    /\ Len(combined_docs) > hk
    /\ Len(result) = hk

ReadyPcs == {"ready", "clear_embeddings", "clear_documents"}
Live(c) == {p \in Procs : pc[p] # "idle" /\ base_path(coll[p]) = c}

\* The callers of collection c are one wave of concurrent constructions on a
\* never-built collection: two or more, each begun before any embedding call
\* was made for c, all with as many documents, all returned ready without a
\* save warning, and nothing else (no earlier construction, no clear_cache)
\* was ever run on c.
FirstWave(c) ==
    /\ Cardinality(Live(c)) >= 2
    /\ ops[c] = Cardinality(Live(c))
    /\ hist[c].count >= 1
    /\ \A p \in Live(c) : fresh[p] /\ pc[p] = "ready" /\ ~warned[p]

\* C1: when two or more callers concurrently construct a retriever for the
\* same never-built collection, embed_documents is called exactly once in
\* total and _save_index runs exactly once in total.
C1_ConcurrentBuildCollapse ==
    \A c \in Collections :
        FirstWave(c) => /\ SumOver(nEmbed, Live(c)) = 1
                        /\ SumOver(nSave, Live(c)) = 1

\* C2: for each collection at most one build (_build_index followed by
\* _save_index) is in flight at any time.
Building(c) ==
    {p \in Procs : base_path(coll[p]) = c /\ pc[p] \in BuildPcs \cup SavePcs}
C2_AtMostOneBuild == \A c \in Collections : Cardinality(Building(c)) <= 1

\* C5: a construction that loaded all three artifacts keeps the cache iff as
\* many documents were cached as are current; on a mismatch it rebuilds from
\* the current documents with one embedding batch call and saves once.
C5_CountCoherence ==
    \A p \in Procs :
        (pc[p] = "ready" /\ cacheOutcome[p] \in {"hit", "mismatch"}) =>
            /\ cacheOutcome[p] = "hit" <=> Len(cached_documents[p]) = Len(given[p])
            /\ cacheOutcome[p] = "hit" =>
                   /\ documents[p] = cached_documents[p]
                   /\ nEmbed[p] = 0
                   /\ nSave[p] = 0
            /\ cacheOutcome[p] = "mismatch" =>
                   /\ nEmbed[p] = 1
                   /\ nSave[p] = 1
                   /\ index[p] = [ok |-> TRUE, vecs |-> given[p], topo |-> index_type[p]]
                   /\ documents[p] = given[p]

\* C6: after a construction built and fully saved the index, every later
\* construction for that collection with as many chunks, with no clear_cache
\* in between, adopts the cached index: it never enters _build_index or
\* _save_index, never raises, and is ready on a cache hit with no
\* embed_documents call.
C6_BuildOnce ==
    \A p \in Procs :
        (/\ afterSave[p]
         /\ ~hist[base_path(coll[p])].cleared
         /\ hist[base_path(coll[p])].count = Len(given[p])) =>
            /\ pc[p] \notin BuildPcs \cup SavePcs \cup {"raised"}
            /\ pc[p] \in ReadyPcs => cacheOutcome[p] = "hit"
            /\ nEmbed[p] = 0
            /\ nSave[p] = 0

\* C7: a construction with zero documents makes no embed_documents call,
\* never becomes ready and never saves, whatever the cache holds; it ends
\* raising "No documents provided for indexing".
C7_EmptyRejected ==
    \A p \in Procs :
        (pc[p] # "idle" /\ given[p] = <<>>) =>
            /\ nEmbed[p] = 0
            /\ pc[p] \notin ReadyPcs \cup SavePcs
            /\ pc[p] = "raised" =>
                   error[p] = "ValueError: No documents provided for indexing"

C7_Witness ==
    \E p \in Procs :
        /\ pc[p] = "raised"
        /\ given[p] = <<>>
        /\ cacheOutcome[p] = "mismatch"

\* C8: one construction attempts embed_documents at most once.
C8_NoRetry == \A p \in Procs : nEmbed[p] <= 1

\* C9 as stated: a construction that found an artifact missing or unreadable
\* never raises.
C9_Original ==
    \A p \in Procs : cacheOutcome[p] \in {"miss", "loadfail"} => pc[p] # "raised"

\* C9 as amended: a missing or unreadable artifact is never what makes a
\* construction raise: the construction goes on to _build_index over the
\* current documents, and either becomes ready on that fresh index or raises
\* the error of _build_index itself.
C9_FallbackToBuild ==
    \A p \in Procs :
        cacheOutcome[p] \in {"miss", "loadfail"} =>
            /\ pc[p] \in BuildPcs \cup SavePcs \cup ReadyPcs \cup {"raised"}
            /\ pc[p] = "raised" => error[p] \in BuildErrors
            /\ pc[p] \in ReadyPcs =>
                   /\ index[p] = [ok |-> TRUE, vecs |-> given[p], topo |-> index_type[p]]
                   /\ documents[p] = given[p]
                   /\ nEmbed[p] = 1

C9_Witness ==
    \E p \in Procs :
        /\ cacheOutcome[p] = "loadfail"
        /\ pc[p] = "ready"
        /\ index[p].ok

\* C10: a failure while writing a cache artifact does not fail the
\* construction: the constructor returns, no error is raised, and the
\* index, embeddings and documents built in memory stay set.
C10_SaveFailureSwallowed ==
    \A p \in Procs :
        warned[p] =>
            /\ pc[p] \in ReadyPcs
            /\ error[p] = "none"
            /\ index[p] = [ok |-> TRUE, vecs |-> given[p], topo |-> index_type[p]]
            /\ document_embeddings[p] = [ok |-> TRUE, vecs |-> given[p]]
            /\ documents[p] = given[p]

C10_Witness ==
    \E p \in Procs :
        /\ warned[p]
        /\ pc[p] = "ready"
        /\ index[p].ok
        /\ files[base_path(coll[p])]["documents"].st # "ok"

\* C11: whenever a retriever is ready (by build, by cache hit, by rebuild
\* after a mismatch or a load failure, also after earlier failed saves), its
\* index holds as many vectors as the retriever holds documents and vector i
\* is the embedding of document i.
C11_IndexDocumentAlignment ==
    \A p \in Procs :
        pc[p] \in ReadyPcs =>
            /\ index[p].ok
            /\ Len(index[p].vecs) = Len(documents[p])
            /\ \A i \in 1..Min(Len(index[p].vecs), Len(documents[p])) :
                   index[p].vecs[i] = documents[p][i]

\* C12: every document _get_relevant_documents returns is the stored
\* document at a position the search reported in the row, and that position
\* lies in 0 .. (number of stored vectors - 1); the "no neighbour" label -1
\* (reported when the index holds fewer than k vectors) and any other
\* position outside that range is never mapped to a document.
C12_OnlyReportedPositions ==
    \A p \in Procs :
        retrieved[p] = "ok" =>
            \A j \in 1..Len(relevant_docs[p]) :
                LET pos == indices[p][relevant_docs[p][j].faiss_rank]
                IN /\ 0 <= pos
                   /\ pos < Len(index[p].vecs)
                   /\ relevant_docs[p][j].page_content = documents[p][pos + 1]

\* C13: a retrieval returns at most k documents, at most as many documents
\* as the collection holds, and no stored chunk twice.
C13_AtMostKAndN ==
    \A p \in Procs :
        retrieved[p] = "ok" =>
            /\ Len(relevant_docs[p]) <= self_k[p]
            /\ Len(relevant_docs[p]) <= Len(documents[p])
            /\ \A i, j \in 1..Len(relevant_docs[p]) :
                   i # j => relevant_docs[p][i].page_content
                                # relevant_docs[p][j].page_content

\* C18: a flat index that the writer built and saved in full, loaded by a
\* fresh retriever and searched with the same query and k, reports the same
\* ordered positions as the writer's unsaved index, and the documents at
\* those positions are the same.
RoundTrip ==
    /\ pc[Writer] = "ready"
    /\ cacheOutcome[Writer] = "miss"
    /\ index[Writer].topo = "flat"
    /\ ~warned[Writer]
    /\ pc[Reader] = "ready"
    /\ cacheOutcome[Reader] = "hit"
    /\ retrieved[Writer] = "ok"
    /\ retrieved[Reader] = "ok"

C14_StepFunction ==
    optimal # "none" =>
        /\ num_documents < 1000 => optimal = "flat"
        /\ (1000 <= num_documents /\ num_documents < 10000) => optimal = "ivf"
        /\ num_documents >= 10000 => optimal = "hnsw"
        /\ num_documents = 999 => optimal = "flat"
        /\ num_documents = 1000 => optimal = "ivf"
        /\ num_documents = 9999 => optimal = "ivf"
        /\ num_documents = 10000 => optimal = "hnsw"
        /\ pc = [p \in Procs |-> "idle"]
        /\ files = [c \in Collections |-> EmptyCache]

C14_Witness == num_documents = 10000 /\ optimal = "hnsw"

\* C15: clear_cache removes the index file, then the embeddings file, then
\* the documents file, whether or not each was there, and raises nothing;
\* when it has returned none of the three exists, and a construction begun
\* right after it finds no cache (a miss, never a load) and builds the
\* index from its own documents.
C15_ClearThenMiss ==
    /\ \A c \in Collections : hist[c].last = "clear" => files[c] = EmptyCache
    /\ \A p \in Procs :
        /\ pc[p] \in ClearPcs => error[p] = "none"
        /\ pc[p] \in {"clear_embeddings", "clear_documents"} =>
               ~path_exists(files[base_path(coll[p])]["index"])
        /\ pc[p] = "clear_documents" =>
               ~path_exists(files[base_path(coll[p])]["embeddings"])
        /\ afterClear[p] =>
               /\ pc[p] \notin LoadPcs
               /\ pc[p] # "exists" => cacheOutcome[p] = "miss"
               /\ pc[p] \in ReadyPcs =>
                      /\ nEmbed[p] = 1
                      /\ index[p] = [ok |-> TRUE, vecs |-> given[p],
                                     topo |-> index_type[p]]

C15_Witness ==
    \E p \in Procs :
        /\ afterClear[p]
        /\ pc[p] = "ready"
        /\ cacheOutcome[p] = "miss"
        /\ nEmbed[p] = 1
        /\ hist[base_path(coll[p])].saved

\* C16: when the FAISS path raises during a hybrid retrieval the call
\* raises: nothing is merged, no list is returned, and the Chroma results
\* are not returned on their own.
C16_FaissFailureFatal ==
    hraised = "faiss" =>
        /\ hpc = "raised"
        /\ seen_content = {}
        /\ combined_docs = <<>>
        /\ result = <<>>

C16_Witness == hraised = "faiss" /\ hpc = "raised" /\ Len(hB) >= 1

\* C17: when the caller passes no weights, every returned document of the
\* FAISS path carries retriever_weight 0.6 and every returned document of
\* the Chroma path carries retriever_weight 0.4.
C17_DefaultWeights ==
    (hpc = "done" /\ weights_arg = <<>>) =>
        \A i \in 1..Len(result) :
            /\ result[i].retriever_source = "faiss" => result[i].retriever_weight = 6
            /\ result[i].retriever_source = "chroma" => result[i].retriever_weight = 4

\* C19: the merge treats two texts that are equal after normalization (here:
\* letter case folded) as the same content, so the returned list never holds
\* two documents whose normalized texts are equal.
normalized(t) == IF t = "X" THEN "x" ELSE t
C19_NormalizedDedup ==
    (hpc = "done" /\ hk >= 0) =>
        \A i, j \in 1..Len(result) :
            i # j => normalized(result[i].page_content)
                         # normalized(result[j].page_content)

\* C20: for k >= 0 the merge returns the first k entries of: the first k
\* results of the FAISS path, first occurrence of each text only, followed by
\* the first k results of the Chroma path whose text was not admitted before;
\* every FAISS-path entry precedes every Chroma-path entry, and when the
\* FAISS path yields k distinct texts nothing of the Chroma path is returned.
FirstOccurrences(q) ==
    SelectSeq([i \in 1..Len(q) |-> IF \E j \in 1..(i - 1) : q[j] = q[i]
                                   THEN "" ELSE q[i]],
              LAMBDA t : t # "")
AdmittedA == FirstOccurrences(TextsOf(FirstK(hA, hk)))
AdmittedB ==
    FirstOccurrences(SelectSeq(TextsOf(FirstK(hB, hk)),
                               LAMBDA t : t \notin Range(AdmittedA)))
C20_MergeOrder ==
    (hpc = "done" /\ hk >= 0) =>
        /\ TextsOf(result) = FirstK(AdmittedA \o AdmittedB, hk)
        /\ \A i \in 1..Len(result) :
               result[i].retriever_source =
                   IF i <= Len(AdmittedA) THEN "faiss" ELSE "chroma"
        /\ \A i, j \in 1..Len(result) :
               (/\ result[i].retriever_source = "faiss"
                /\ result[j].retriever_source = "chroma") => i < j
        /\ Len(AdmittedA) = hk =>
               \A i \in 1..Len(result) : result[i].retriever_source = "faiss"

C20_Witness ==
    /\ hpc = "done"
    /\ hk = 2
    /\ TextsOf(hA) = <<"x", "x", "y">>
    /\ TextsOf(hB) = <<"z", "y">>
    /\ TextsOf(result) = <<"x", "z">>

\* C21: the weights never influence which chunks the hybrid merge returns or
\* their order: run on the same path outputs and k with any other weight
\* pair, the merge returns the same texts with the same source tags, and
\* each entry differs from its counterpart in retriever_weight only.
merge(A, B, k, w) ==
    LET a == process_faiss(A, k, w)
        b == process_chroma(B, k, w, a.seen, a.combined)
    IN top_k(b.combined, k)
WeightPairs == {<<a, 10 - a>> : a \in 0..10}
C21_WeightsDoNotRank ==
    hpc = "done" =>
        \A w \in WeightPairs :
            LET other == merge(hA, hB, hk, w)
            IN /\ Len(other) = Len(result)
               /\ \A i \in 1..Len(result) :
                      /\ other[i].page_content = result[i].page_content
                      /\ other[i].retriever_source = result[i].retriever_source
                      /\ [other[i] EXCEPT !.retriever_weight = 0]
                             = [result[i] EXCEPT !.retriever_weight = 0]

C21_Witness ==
    /\ hpc = "done"
    /\ weights = <<6, 4>>
    /\ \E i, j \in 1..Len(result) :
           /\ result[i].retriever_source = "faiss"
           /\ result[j].retriever_source = "chroma"
           /\ result[i].retriever_weight # result[j].retriever_weight

\* C22: a construction that loads a cache holding as many documents as it
\* was given, but other documents, keeps the cache: it makes no
\* embed_documents call, builds and saves nothing, adopts the cached
\* documents, and what it retrieves afterwards are cached texts only.
StaleLoad(p) ==
    /\ pc[p] \in ReadyPcs
    /\ cacheOutcome[p] \in {"hit", "mismatch"}
    /\ Len(cached_documents[p]) = Len(given[p])
    /\ cached_documents[p] # given[p]

C22_StaleCacheServed ==
    \A p \in Procs :
        StaleLoad(p) =>
            /\ cacheOutcome[p] = "hit"
            /\ nEmbed[p] = 0
            /\ nSave[p] = 0
            /\ documents[p] = cached_documents[p]
            /\ retrieved[p] = "ok" =>
                   \A j \in 1..Len(relevant_docs[p]) :
                       relevant_docs[p][j].page_content
                           \in Range(cached_documents[p])

C22_Witness ==
    \E p \in Procs :
        /\ StaleLoad(p)
        /\ retrieved[p] = "ok"
        /\ Len(relevant_docs[p]) >= 1
        /\ Range(given[p]) \cap Range(cached_documents[p]) = {}

\* C23: whenever no _save_index is under way, the cache files of a
\* collection that are all three there and readable stem from one build:
\* the persisted index holds as many vectors as the persisted embeddings
\* array and as the persisted documents list have entries.
C23_ArtifactsAgree ==
    \A c \in Collections :
        (/\ \A p \in Procs : pc[p] \notin SavePcs
         /\ \A f \in {"index", "embeddings", "documents"} : readable(files[c][f])) =>
            /\ Len(files[c]["index"].data.vecs) = Len(files[c]["embeddings"].data)
            /\ Len(files[c]["index"].data.vecs) = Len(files[c]["documents"].data)

\* C28: in every ready state the topology of the index in use is the
\* retriever's index_type (what get_index_stats reports), also when the
\* index was adopted from a cache.
C28_TopologyAsRequested ==
    \A p \in Procs : pc[p] \in ReadyPcs => index[p].topo = index_type[p]

\* C29: a construction with an index_type other than flat, ivf, hnsw never
\* becomes ready and never writes a cache file, whatever the cache holds.
C29_UnsupportedTypeRejected ==
    \A p \in Procs :
        (pc[p] # "idle" /\ index_type[p] \notin SupportedTypes) =>
            pc[p] \notin ReadyPcs \cup SavePcs

\* C27: for the ivf index over n >= 1 documents the number of clusters is
\* floor(n / 10) clamped to 1 .. 100 and the number of clusters probed is
\* min(nlist, 10); nlist is never 0; n = 4 gives nlist = 1 and nprobe = 1.
C27_IvfParameters ==
    ivf.trained =>
        /\ ivf.nlist >= 1
        /\ ivf.nlist <= 100
        /\ num_documents < 10 => ivf.nlist = 1
        /\ num_documents >= 1000 => ivf.nlist = 100
        /\ (10 <= num_documents /\ num_documents < 1000) =>
               /\ ivf.nlist * 10 <= num_documents
               /\ num_documents < ivf.nlist * 10 + 10
        /\ ivf.nprobe = (IF ivf.nlist < 10 THEN ivf.nlist ELSE 10)
        /\ num_documents = 4 => (ivf.nlist = 1 /\ ivf.nprobe = 1)

C27_Witness ==
    /\ ivf.trained
    /\ num_documents = 4
    /\ ivf.nlist = 1
    /\ ivf.nprobe = 1

\* C30: step 4 of initialize_rag_chain always selects a retriever: the
\* hybrid retriever only when the configured method is faiss_hybrid and the
\* FAISS retriever was created, the FAISS retriever alone only when the
\* configured method is faiss_only and it was created; an exception while
\* creating the FAISS retriever never ends the initialisation and leads to
\* the Chroma retriever alone.
C30_RetrieverAlwaysSelected ==
    /\ cpc \in {"init_faiss", "configure", "done"}
    /\ faiss_outcome \in {"ImportError", "Exception"} =>
           /\ cpc \in {"configure", "done"}
           /\ cpc = "done" => ensemble_retriever = "chroma_retriever"
    /\ cpc = "done" =>
           /\ ensemble_retriever # "None"
           /\ ensemble_retriever = "HybridFAISSRetriever" =>
                  (configured_method = "faiss_hybrid" /\ faiss_outcome = "ok")
           /\ ensemble_retriever = "FAISSRetriever" =>
                  (configured_method = "faiss_only" /\ faiss_outcome = "ok")

C30_Witness ==
    /\ cpc = "done"
    /\ configured_method = "faiss_hybrid"
    /\ faiss_outcome = "Exception"
    /\ ensemble_retriever = "chroma_retriever"

\* C25: a retrieval changes nothing of the retriever: the index, the stored
\* documents, the stored embeddings and the cache files are the same after
\* it as before, and no stored document object was written to.
C25_RetrievalIsReadOnly ==
    [][\A p \in Procs :
           retrieved'[p] # "none" /\ retrieved[p] = "none" =>
               /\ index' = index
               /\ documents' = documents
               /\ document_embeddings' = document_embeddings
               /\ files' = files
               /\ pc' = pc
               /\ touched'[p] = {}]_vars

C25_Witness ==
    /\ retrieved[Writer] = "ok"
    /\ retrieved[Reader] = "ok"
    /\ Len(relevant_docs[Writer]) >= 2
    /\ Len(relevant_docs[Reader]) >= 2

\* C26: the j-th document a retrieval returns has faiss_rank j: the ranks
\* of the m returned documents are 1, 2, ..., m.
C26_RanksWithoutGaps ==
    \A p \in Procs :
        retrieved[p] = "ok" =>
            \A j \in 1..Len(relevant_docs[p]) : relevant_docs[p][j].faiss_rank = j

\* C24: distinct collection names have no cache file path in common, and a
\* step of a retriever (construction, build, save, rebuild, clear_cache)
\* leaves the cache files of every other collection name as they were.
FilesOf(name) == files[base_path(name)]
ActingName(p) == IF pc[p] = "idle" THEN coll'[p] ELSE coll[p]
C24_CollectionsIndependent ==
    [][\A p \in Procs :
           pc'[p] # pc[p] =>
               \A other \in CollectionNames \ {ActingName(p)} :
                   /\ \A f, g \in {"index", "embeddings", "documents"} :
                          get_cache_paths(other)[f]
                              # get_cache_paths(ActingName(p))[g]
                   /\ FilesOf(other)' = FilesOf(other)]_vars

====
